---- MODULE Spec2Model ----
(***************************************************************************)
(* Model of addhash.py: for every table of TABLES, main() adds one         *)
(* "<col>_sha256" column per non-excluded column and fills it, row by row, *)
(* with the SHA-256 of the column's value.                                 *)
(*                                                                         *)
(* Column and table names are strings.  Cell texts are sequences of        *)
(* one-character strings, so that the case tests of sha256_hex can be      *)
(* computed.  The store is SQLite seen through Python's sqlite3 module in  *)
(* its default transaction mode: an UPDATE opens a transaction that only   *)
(* conn.commit() makes durable, an ALTER TABLE issued outside a            *)
(* transaction is durable at once.                                         *)
(***************************************************************************)
EXTENDS Integers, Sequences, FiniteSets, TLC

(***************************************************************************)
(* Bounds of the model.                                                    *)
(***************************************************************************)
MaxRows == 2        \* rows per table in the initial database
MaxTables == 2      \* length of the TABLES list

(***************************************************************************)
(* Cell values: NULL, an integer, or a text.                               *)
(***************************************************************************)
Null == [kind |-> "null", n |-> 0, s |-> <<>>]
IntVal(k) == [kind |-> "int", n |-> k, s |-> <<>>]
Text(t) == [kind |-> "text", n |-> 0, s |-> t]

\* The values the initial rows are built from.
InitValues == {Null, IntVal(12), Text(<<"A", "B">>), Text(<<"a", "B">>)}

(***************************************************************************)
(* Python string operations used by the program.                           *)
(***************************************************************************)
UpperChars == {"A", "B"}
LowerChars == {"a", "b"}

lowerChar(c) == CASE c = "A" -> "a" [] c = "B" -> "b" [] OTHER -> c
upperChar(c) == CASE c = "a" -> "A" [] c = "b" -> "B" [] OTHER -> c

\* str.isupper(): at least one cased character and no lower-case one.
isupper(s) ==
    /\ \E k \in 1..Len(s) : s[k] \in UpperChars
    /\ \A k \in 1..Len(s) : s[k] \notin LowerChars

\* str.lower()
lower(s) == [k \in 1..Len(s) |-> lowerChar(s[k])]

\* str.capitalize(): first character upper-cased, the rest lower-cased.
capitalize(s) == [k \in 1..Len(s) |-> IF k = 1 THEN upperChar(s[k]) ELSE lowerChar(s[k])]

Digits == <<"0", "1", "2", "3", "4", "5", "6", "7", "8", "9">>

RECURSIVE natStr(_)
natStr(k) == IF k < 10 THEN <<Digits[k + 1]>>
             ELSE natStr(k \div 10) \o <<Digits[(k % 10) + 1]>>

\* str(value) of a non-NULL cell value: decimal rendering of an integer,
\* the text itself for a text.
str(v) == IF v.kind = "int"
          THEN (IF v.n < 0 THEN <<"-">> \o natStr(-v.n) ELSE natStr(v.n))
          ELSE v.s

\* hashlib.sha256(s.encode("utf-8")).hexdigest(), idealised as a
\* collision-free function from texts to texts.
hexdigest(s) == <<"#">> \o s

\* A bug that would assign the case transformation back to s.
sha256_hex_rebinds(s) ==
    LET t == IF isupper(s) THEN capitalize(lower(s)) ELSE s
    IN  hexdigest(t)

\* sha256_hex: line 14 evaluates s.lower().capitalize() and drops the
\* result; s is not rebound, and line 15 digests s.
sha256_hex(s) ==
    LET dropped == IF isupper(s) THEN capitalize(lower(s)) ELSE s
        s_after == s
    IN  hexdigest(s_after)

\* Line 46: raw = "" if value is None else str(value)
raw(value) == IF value = Null THEN <<>> ELSE str(value)

\* Lines 46-47: the digest stored for a cell value.
RowDigest(value) == Text(sha256_hex(raw(value)))

\* Line 33 / 42: hash_col = f"{col}_sha256"
HashCol(col) == col \o "_sha256"

RECURSIVE SelectSeq2(_, _)
SelectSeq2(s, excl) ==
    IF s = <<>> THEN <<>>
    ELSE IF Head(s) \in excl THEN SelectSeq2(Tail(s), excl)
         ELSE <<Head(s)>> \o SelectSeq2(Tail(s), excl)

\* A bug that would ignore EXCLUDE_COLS.
ToHash_all(cols, excl) == cols

\* Line 27: to_hash = [c for c in all_cols if c not in EXCLUDE_COLS]
ToHash(cols, excl) == SelectSeq2(cols, excl)

Range(s) == {s[k] : k \in 1..Len(s)}

(***************************************************************************)
(* The store.  A table is its ordered column names and its rows (rowid =   *)
(* position), every row a function from column name to value.              *)
(***************************************************************************)
\* ALTER TABLE t ADD COLUMN h BLOB: the new column is NULL in every row.
AddColumnTo(t, h) ==
    [cols |-> Append(t.cols, h),
     rows |-> [r \in 1..Len(t.rows) |->
                [c \in DOMAIN t.rows[r] \cup {h} |->
                    IF c = h THEN Null ELSE t.rows[r][c]]]]

\* UPDATE t SET h = v WHERE rowid = r
UpdateCell(t, h, r, v) ==
    [t EXCEPT !.rows = [q \in 1..Len(t.rows) |->
        IF q = r THEN [c \in DOMAIN t.rows[q] |-> IF c = h THEN v ELSE t.rows[q][c]]
        ELSE t.rows[q]]]

\* SELECT rowid, col FROM t; fetchall()
FetchAll(t, col) == [r \in 1..Len(t.rows) |-> <<r, t.rows[r][col]>>]

\* The values of column c, by rowid.
Column(t, c) == [r \in 1..Len(t.rows) |-> t.rows[r][c]]

(***************************************************************************)
(* State.                                                                  *)
(***************************************************************************)
VARIABLES
    TABLES,         \* configuration: the list of table names (line 7)
    EXCLUDE_COLS,   \* configuration: the columns not to hash (line 9)
    store,          \* the database file: durable content of every table
    conn,           \* the content the open connection sees (pending writes included)
    pc,             \* position of the script
    idx,            \* position of the loop of lines 58-59 in TABLES
    TABLE,          \* argument of the current call of main()
    all_cols,       \* line 24
    to_hash,        \* line 27
    ci,             \* position of the loops of lines 32 and 41 in to_hash
    fetched,        \* result of cur.fetchall(), line 45
    ri,             \* position of the loop of line 45 in fetched
    call,           \* history of the current call of main()
    hist            \* history of the whole script

config == <<TABLES, EXCLUDE_COLS>>
locals == <<TABLE, all_cols, to_hash, ci, fetched, ri>>
vars == <<TABLES, EXCLUDE_COLS, store, conn, pc, idx, TABLE, all_cols, to_hash,
          ci, fetched, ri, call, hist>>

TableNames == {"t1", "t2"}
ColumnNames == {"a", "b", "a_sha256"}
Schemas == {<<"a">>, <<"a", "b">>, <<"a", "a_sha256">>, <<"a_sha256", "a">>}

\* The tables TABLES may list: sequences of 1..MaxTables table names.
TableLists == UNION {[1..k -> TableNames] : k \in 1..MaxTables}

\* A table with the given columns whose row r holds vals[r] in every column.
InitTable(cols, vals) ==
    [cols |-> cols,
     rows |-> [r \in 1..Len(vals) |-> [c \in Range(cols) |-> vals[r]]]]

\* The history of a call of main() that has just been entered on content t;
\* again: an earlier call of main() on the same table ran to the end.
NewCall(t, again) ==
    [pre |-> t,                 \* durable content of TABLE when main() was entered
     rerun |-> again,
     issued |-> {},             \* hash columns an ALTER TABLE was issued for
     scanned |-> {},            \* columns a SELECT was issued for
     targets |-> {},            \* hash columns an UPDATE was issued for
     schemaCommitted |-> FALSE, \* line 39 has run
     commits |-> 0,             \* calls of conn.commit()
     updates |-> 0,             \* UPDATEs done for the column being hashed
     committed |-> <<>>,        \* per committed column: hash column, values, UPDATEs
     outcome |-> "running",     \* how the call ended
     where |-> ""]              \* pc when an exception or the termination ended it

Init ==
    /\ TABLES \in TableLists
    /\ EXCLUDE_COLS \in SUBSET ColumnNames
    /\ \E cols \in Schemas, k \in 0..MaxRows :
         \E vals \in [1..k -> InitValues] :
            store = [t \in TableNames |-> InitTable(cols, vals)]
    /\ conn = store
    /\ pc = "loop"
    /\ idx = 1
    /\ TABLE = ""
    /\ all_cols = <<>>
    /\ to_hash = <<>>
    /\ ci = 1
    /\ fetched = <<>>
    /\ ri = 1
    /\ call = NewCall(store["t1"], FALSE)
    /\ hist = [done |-> {},         \* tables a call of main() ran to the end on
               post |-> store,      \* their durable content when that call returned
               created |-> {},      \* <<table, column>> added by an ALTER TABLE
               hashedFrom |-> {},   \* columns whose values were read for hashing
               writes |-> {}]       \* <<cell value, digest>> of every UPDATE done

(***************************************************************************)
(* The script.  pc is "loop" between two calls of main() (lines 58-59),    *)
(* "check" at line 28, "schema" in the loop of lines 32-38, "hash" at line *)
(* 41, "rows" in the loop of lines 45-51, "raised" once an exception has   *)
(* left main() (nothing catches it: the script ends) and "killed" once the *)
(* process has been terminated from outside.                               *)
(***************************************************************************)
InMain == pc \in {"check", "schema", "hash", "rows"}

hash_col == HashCol(to_hash[ci])

\* Lines 58-59 and 18-27: the next table of TABLES is passed to main(),
\* which connects, reads the column names and selects those to hash.
MainEnter ==
    /\ pc = "loop"
    /\ idx <= Len(TABLES)
    /\ TABLE' = TABLES[idx]
    /\ conn' = store
    /\ all_cols' = store[TABLES[idx]].cols
    /\ to_hash' = ToHash(store[TABLES[idx]].cols, EXCLUDE_COLS)
    /\ call' = NewCall(store[TABLES[idx]], TABLES[idx] \in hist.done)
    /\ pc' = "check"
    /\ UNCHANGED <<config, store, idx, ci, fetched, ri, hist>>

\* A bug that would end the script when there is nothing to hash.
NoColumns_exits ==
    /\ pc = "check"
    /\ to_hash = <<>>
    /\ call' = [call EXCEPT !.outcome = "noeligible"]
    /\ pc' = "raised"
    /\ UNCHANGED <<config, store, conn, idx, locals, hist>>

\* Lines 28-30: nothing to hash; main() prints and returns, and the loop
\* of line 58 goes on to the next table.
NoColumns ==
    /\ pc = "check"
    /\ to_hash = <<>>
    /\ call' = [call EXCEPT !.outcome = "noeligible"]
    /\ pc' = "loop"
    /\ idx' = idx + 1
    /\ UNCHANGED <<config, store, conn, locals, hist>>

\* Line 28, to_hash not empty: on to the loop of line 32.
StartSchema ==
    /\ pc = "check"
    /\ to_hash # <<>>
    /\ pc' = "schema"
    /\ ci' = 1
    /\ UNCHANGED <<config, store, conn, idx, TABLE, all_cols, to_hash, fetched, ri,
                   call, hist>>

\* Lines 32-36: hash_col is not among all_cols; the ALTER TABLE succeeds.
\* No transaction is open (no UPDATE was issued on this connection yet),
\* so the new column is durable at once.
AddColumn ==
    /\ pc = "schema"
    /\ ci <= Len(to_hash)
    /\ hash_col \notin Range(all_cols)
    /\ hash_col \notin Range(conn[TABLE].cols)
    /\ conn' = [conn EXCEPT ![TABLE] = AddColumnTo(@, hash_col)]
    /\ store' = [store EXCEPT ![TABLE] = AddColumnTo(@, hash_col)]
    /\ ci' = ci + 1
    /\ call' = [call EXCEPT !.issued = @ \cup {hash_col}]
    /\ hist' = [hist EXCEPT !.created = @ \cup {<<TABLE, hash_col>>}]
    /\ UNCHANGED <<config, pc, idx, TABLE, all_cols, to_hash, fetched, ri>>

\* A bug that would catch the store's error and go on with the next column.
AddColumnFails_swallowed ==
    /\ pc = "schema"
    /\ ci <= Len(to_hash)
    /\ hash_col \notin Range(all_cols)
    /\ ci' = ci + 1
    /\ call' = [call EXCEPT !.issued = @ \cup {hash_col}, !.outcome = "alterfail",
                            !.where = pc]
    /\ UNCHANGED <<config, store, conn, pc, idx, TABLE, all_cols, to_hash, fetched,
                   ri, hist>>

\* Lines 32-36: the store rejects the ALTER TABLE.  The exception leaves
\* main() and the script; the connection is dropped without a commit.
AddColumnFails ==
    /\ pc = "schema"
    /\ ci <= Len(to_hash)
    /\ hash_col \notin Range(all_cols)
    /\ call' = [call EXCEPT !.issued = @ \cup {hash_col}, !.outcome = "alterfail",
                            !.where = pc]
    /\ conn' = store
    /\ pc' = "raised"
    /\ UNCHANGED <<config, store, idx, locals, hist>>

\* Lines 37-38: hash_col is among all_cols; nothing is added.
SkipColumn ==
    /\ pc = "schema"
    /\ ci <= Len(to_hash)
    /\ hash_col \in Range(all_cols)
    /\ ci' = ci + 1
    /\ UNCHANGED <<config, store, conn, pc, idx, TABLE, all_cols, to_hash, fetched,
                   ri, call, hist>>

\* A bug that would start hashing after the first column of the loop of
\* line 32 (lines 39 onwards indented into the loop, say).
CommitSchema_early ==
    /\ pc = "schema"
    /\ ci > 1
    /\ store' = conn
    /\ call' = [call EXCEPT !.schemaCommitted = TRUE, !.commits = @ + 1]
    /\ pc' = "hash"
    /\ ci' = 1
    /\ UNCHANGED <<config, conn, idx, TABLE, all_cols, to_hash, fetched, ri, hist>>

\* Line 39: the loop of line 32 is over; conn.commit().
CommitSchema ==
    /\ pc = "schema"
    /\ ci > Len(to_hash)
    /\ store' = conn
    /\ call' = [call EXCEPT !.schemaCommitted = TRUE, !.commits = @ + 1]
    /\ pc' = "hash"
    /\ ci' = 1
    /\ UNCHANGED <<config, conn, idx, TABLE, all_cols, to_hash, fetched, ri, hist>>

\* Lines 41-45: SELECT rowid, col of every row; fetchall().
SelectColumn ==
    /\ pc = "hash"
    /\ ci <= Len(to_hash)
    /\ fetched' = FetchAll(conn[TABLE], to_hash[ci])
    /\ ri' = 1
    /\ call' = [call EXCEPT !.scanned = @ \cup {to_hash[ci]}, !.updates = 0]
    /\ hist' = [hist EXCEPT !.hashedFrom = @ \cup {to_hash[ci]}]
    /\ pc' = "rows"
    /\ UNCHANGED <<config, store, conn, idx, TABLE, all_cols, to_hash, ci>>

\* A bug that would commit after every UPDATE.
UpdateRow_commits ==
    /\ pc = "rows"
    /\ ri <= Len(fetched)
    /\ hash_col \in Range(conn[TABLE].cols)
    /\ LET rowid == fetched[ri][1]
           value == fetched[ri][2]
           h == RowDigest(value)
       IN  /\ conn' = [conn EXCEPT ![TABLE] = UpdateCell(@, hash_col, rowid, h)]
           /\ store' = [store EXCEPT ![TABLE] = UpdateCell(conn[TABLE], hash_col, rowid, h)]
           /\ hist' = [hist EXCEPT !.writes = @ \cup {<<value, h>>}]
    /\ ri' = ri + 1
    /\ call' = [call EXCEPT !.targets = @ \cup {hash_col}, !.updates = @ + 1,
                            !.commits = @ + 1]
    /\ UNCHANGED <<config, pc, idx, TABLE, all_cols, to_hash, ci, fetched>>

\* Lines 45-51: the digest of the next fetched value is written to
\* hash_col of its row.  The write is pending until the next commit.
UpdateRow ==
    /\ pc = "rows"
    /\ ri <= Len(fetched)
    /\ hash_col \in Range(conn[TABLE].cols)
    /\ LET rowid == fetched[ri][1]
           value == fetched[ri][2]
           h == RowDigest(value)
       IN  /\ conn' = [conn EXCEPT ![TABLE] = UpdateCell(@, hash_col, rowid, h)]
           /\ hist' = [hist EXCEPT !.writes = @ \cup {<<value, h>>}]
    /\ ri' = ri + 1
    /\ call' = [call EXCEPT !.targets = @ \cup {hash_col}, !.updates = @ + 1]
    /\ UNCHANGED <<config, store, pc, idx, TABLE, all_cols, to_hash, ci, fetched>>

\* Lines 48-51: the store rejects the UPDATE (always so when hash_col is
\* no column of the table).  The exception leaves main() and the script;
\* the connection is dropped and its pending writes are rolled back.
UpdateRowFails ==
    /\ pc = "rows"
    /\ ri <= Len(fetched)
    /\ call' = [call EXCEPT !.targets = @ \cup {hash_col}, !.outcome = "updatefail",
                            !.where = pc]
    /\ conn' = store
    /\ pc' = "raised"
    /\ UNCHANGED <<config, store, idx, locals, hist>>

\* Line 52: every fetched row is updated; conn.commit() makes the column's
\* writes durable.
CommitColumn ==
    /\ pc = "rows"
    /\ ri > Len(fetched)
    /\ store' = conn
    /\ call' = [call EXCEPT !.commits = @ + 1,
                            !.committed = Append(@, [h |-> hash_col,
                                                     vals |-> Column(conn[TABLE], hash_col),
                                                     n |-> call.updates])]
    /\ ci' = ci + 1
    /\ pc' = "hash"
    /\ UNCHANGED <<config, conn, idx, TABLE, all_cols, to_hash, fetched, ri, hist>>

\* Lines 54-55: the loop of line 41 is over; main() closes the connection
\* and returns, and the loop of line 58 goes on to the next table.
CloseReturn ==
    /\ pc = "hash"
    /\ ci > Len(to_hash)
    /\ call' = [call EXCEPT !.outcome = "completed"]
    /\ hist' = [hist EXCEPT !.done = @ \cup {TABLE}, !.post[TABLE] = store[TABLE]]
    /\ conn' = store
    /\ pc' = "loop"
    /\ idx' = idx + 1
    /\ UNCHANGED <<config, store, locals>>

\* The process is terminated while main() runs: the pending writes of the
\* connection are lost.
Terminate ==
    /\ InMain
    /\ call' = [call EXCEPT !.outcome = "killed", !.where = pc]
    /\ conn' = store
    /\ pc' = "killed"
    /\ UNCHANGED <<config, store, idx, locals, hist>>

Next ==
    \/ MainEnter
    \/ NoColumns
    \/ StartSchema
    \/ AddColumn
    \/ AddColumnFails
    \/ SkipColumn
    \/ CommitSchema
    \/ SelectColumn
    \/ UpdateRow
    \/ UpdateRowFails
    \/ CommitColumn
    \/ CloseReturn
    \/ Terminate

Spec == Init /\ [][Next]_vars

(***************************************************************************)
(* Properties.                                                             *)
(***************************************************************************)
Called == TABLE \in TableNames

\* The column a table holds before this call wrote to it: its values at
\* entry, NULL in every row for a column this call added.
ColumnAtEntry(c) ==
    IF c \in Range(call.pre.cols) THEN Column(call.pre, c)
    ELSE [r \in 1..Len(call.pre.rows) |-> Null]

\* The hash columns of a table (the columns named after another of its
\* columns) with their values.
HashPart(t) ==
    LET hs == {c \in Range(t.cols) : \E d \in Range(t.cols) : c = HashCol(d)}
    IN  [c \in hs |-> Column(t, c)]

\* The digest the specification asks for: digest(normalize(v)), NULL
\* normalised to the empty text, anything else to its rendering.
Expected(v) ==
    Text(hexdigest(CASE v.kind = "null" -> <<>>
                     [] v.kind = "int" -> natStr(v.n)
                     [] OTHER -> v.s))

\* C1: a call of main() on a table that an earlier call ran to the end on
\* issues no ADD COLUMN, leaves the table's columns as they were, and no
\* schema error is raised.
C1_RerunAddsNoColumn ==
    (Called /\ call.rerun) =>
        /\ call.issued = {}
        /\ store[TABLE].cols = call.pre.cols
        /\ call.outcome # "alterfail"

\* C2: when a second call of main() on a table has returned, the table has
\* the hash columns it had after the first call, with the same digests.
C2_RerunKeepsHashColumns ==
    (Called /\ call.rerun /\ call.outcome = "completed") =>
        HashPart(store[TABLE]) = HashPart(call.pre)

\* C3: when main() has returned without error, every row holds in
\* C_sha256 the digest of its current value of C, for every column C that
\* was hashed in the call.
C3_TargetState ==
    (Called /\ call.outcome = "completed") =>
        \A k \in 1..Len(to_hash) : \A r \in 1..Len(store[TABLE].rows) :
            store[TABLE].rows[r][HashCol(to_hash[k])]
                = Expected(store[TABLE].rows[r][to_hash[k]])

\* C4: during and after a call of main(), every column the table had
\* before the call, other than the hash columns this script created, holds
\* in every row the value it held before the call.
C4_SourceValuesKept ==
    Called =>
        \A c \in Range(call.pre.cols) :
            <<TABLE, c>> \notin hist.created =>
                /\ Column(conn[TABLE], c) = Column(call.pre, c)
                /\ Column(store[TABLE], c) = Column(call.pre, c)

\* C5: once main() has reached the Row Hasher (a SELECT or an UPDATE was
\* issued, or line 41 is reached), line 39 has committed and the hash
\* column of every column to hash is in the durable schema; every UPDATE
\* issued targets a column of the durable schema.
C5_SchemaBeforeHashing ==
    Called =>
        /\ (pc \in {"hash", "rows"} \/ call.scanned # {} \/ call.targets # {}) =>
              /\ call.schemaCommitted
              /\ \A k \in 1..Len(to_hash) :
                    HashCol(to_hash[k]) \in Range(store[TABLE].cols)
        /\ call.targets \subseteq Range(store[TABLE].cols)
        /\ ~call.schemaCommitted => call.scanned = {}

C5_Witness ==
    /\ Called
    /\ Cardinality(call.issued) >= 2
    /\ Cardinality(call.targets) >= 2
    /\ call.outcome = "completed"

\* C6: while a column is being hashed, and after an UPDATE failure or a
\* termination at that point, the durable table holds in the column's
\* hash column what it held before the call; the hash column of every
\* column committed in the call durably holds the digests committed; and
\* there is one commit per hashed column, made after one UPDATE per row.
C6_ColumnCommit ==
    Called =>
        /\ (pc = "rows" \/ (pc \in {"raised", "killed"} /\ call.where = "rows")) =>
              Column(store[TABLE], hash_col) = ColumnAtEntry(hash_col)
        /\ \A k \in 1..Len(call.committed) :
              /\ call.committed[k].h = HashCol(to_hash[k])
              /\ call.committed[k].n = Len(store[TABLE].rows)
              /\ Column(store[TABLE], call.committed[k].h) = call.committed[k].vals
        /\ call.schemaCommitted => call.commits = 1 + Len(call.committed)
        /\ pc \in {"hash", "rows"} => Len(call.committed) = ci - 1

C6_Witness ==
    /\ Called
    /\ pc = "raised"
    /\ call.outcome = "updatefail"
    /\ call.updates > 0
    /\ Len(call.committed) > 0
    /\ Column(store[TABLE], call.committed[1].h) # ColumnAtEntry(call.committed[1].h)

\* C7: no ADD COLUMN is issued for the hash column of an excluded column,
\* no UPDATE targets it and the values of an excluded column are never
\* read for hashing.
C7_ExclusionRespected ==
    \A c \in EXCLUDE_COLS :
        /\ HashCol(c) \notin call.issued
        /\ HashCol(c) \notin call.targets
        /\ c \notin hist.hashedFrom
        /\ \A t \in TableNames : <<t, HashCol(c)>> \notin hist.created

C7_Witness ==
    /\ Called
    /\ Range(all_cols) \cap EXCLUDE_COLS # {}
    /\ call.rerun
    /\ call.issued # {}
    /\ call.outcome = "completed"

\* C8: when the store rejects an ADD COLUMN, the exception leaves main()
\* and no SELECT and no UPDATE is issued in that call.
C8_SchemaFailureStopsHashing ==
    call.outcome = "alterfail" =>
        /\ pc = "raised"
        /\ call.scanned = {}
        /\ call.targets = {}
        /\ call.commits = 0
        /\ \A c \in Range(call.pre.cols) : Column(store[TABLE], c) = Column(call.pre, c)

C8_Witness ==
    /\ call.outcome = "alterfail"
    /\ pc = "raised"
    /\ Cardinality(call.issued) >= 2
    /\ Len(store[TABLE].rows) > 0

\* C9: when every column of the table is excluded, main() returns without
\* raising, with no ADD COLUMN, UPDATE or commit issued and the table
\* unchanged, and the loop over TABLES goes on with the next table.
C9_NoColumnsReturns ==
    (Called /\ Range(all_cols) \subseteq EXCLUDE_COLS /\ pc # "check") =>
        \/ call.outcome = "killed" /\ call.where = "check" /\ store[TABLE] = call.pre
        \/ /\ call.outcome = "noeligible"
           /\ pc = "loop"
           /\ call.issued = {}
           /\ call.scanned = {}
           /\ call.targets = {}
           /\ call.commits = 0
           /\ store[TABLE] = call.pre
           /\ conn = store
           /\ idx <= Len(TABLES) => ENABLED MainEnter

C9_Witness ==
    /\ Called
    /\ all_cols # <<>>
    /\ call.outcome = "noeligible"
    /\ idx <= Len(TABLES)
    /\ Len(store[TABLE].rows) > 0

====
